---- MODULE Spec2Model ----
(***************************************************************************)
(* The user session store of src/src/stores/user.ts (pinia store 'user'):  *)
(* the in-memory refs userInfo / loginStatus / isLoading, the two Web      *)
(* Storage scopes it mirrors them into, the cookie jar, and the async      *)
(* operations signin / checkLoginStatus / logout with their suspension     *)
(* points, plus the synchronous setLoginStatus / updateUserState and the   *)
(* initializeUserState that runs when the store is constructed.            *)
(***************************************************************************)
EXTENDS Integers, Sequences, FiniteSets, Bags, TLC

\* ---------------------------------------------------------------- bounds
\* asynchronous work that may be pending at the same time: suspended signin
\* and checkLoginStatus invocations and unsettled apiUserLogout promises
MaxPending == 2

\* ------------------------------------------------------------ JS values
\* JS null (the value of an empty ref, and what JSON.parse("null") yields)
Null == [kind |-> "null"]

\* A UserInfo object with its required fields.
UserInfo(i, n, e, f) ==
    [kind |-> "object", id |-> i, username |-> n, email |-> e, full_name |-> f]

Alice == UserInfo(1, "alice", "a@x.io", "Alice A")
Bob == UserInfo(2, "bob", "b@x.io", "")

Users == {Alice, Bob}
UsersOrNull == Users \cup {Null}

\* JS truthiness of a user argument: null is falsy, every object is truthy.
Truthy(v) == v # Null

\* displayName: full_name, else username, else ''.
displayNameOf(u) ==
    IF u = Null THEN ""
    ELSE IF u.full_name # "" THEN u.full_name
    ELSE IF u.username # "" THEN u.username
    ELSE ""

\* ------------------------------------------------------- JSON text
\* A string is modelled as the sequence of its lexical tokens.
Ids == {1, 2}
Strs == {"alice", "bob", "a@x.io", "b@x.io", "Alice A", ""}

NumText(n) == IF n = 1 THEN "1" ELSE "2"
\* the quoted form of a string; those of the strings this model's texts
\* contain are computed once
FieldNames == {"id", "username", "email", "full_name"}
Quoted == [s \in Strs \cup FieldNames |-> "\"" \o s \o "\""]
Quote(s) == IF s \in DOMAIN Quoted THEN Quoted[s] ELSE "\"" \o s \o "\""

\* JSON.stringify of null or of a UserInfo object (keys in insertion order).
Stringify(v) ==
    IF v = Null
    THEN << "null" >>
    ELSE << "{", Quote("id"), ":", NumText(v.id), ",",
            Quote("username"), ":", Quote(v.username), ",",
            Quote("email"), ":", Quote(v.email), ",",
            Quote("full_name"), ":", Quote(v.full_name), "}" >>

IsNumText(t) == \E n \in Ids : NumText(n) = t
IsStrText(t) == \E s \in Strs : Quote(s) = t
NumOf(t) == CHOOSE n \in Ids : NumText(n) = t
StrOf(t) == CHOOSE s \in Strs : Quote(s) = t

IsObjectText(t) ==
    /\ Len(t) = 17
    /\ t[1] = "{" /\ t[17] = "}"
    /\ t[2] = Quote("id") /\ t[6] = Quote("username")
    /\ t[10] = Quote("email") /\ t[14] = Quote("full_name")
    /\ \A i \in {3, 7, 11, 15} : t[i] = ":"
    /\ \A i \in {5, 9, 13} : t[i] = ","
    /\ IsNumText(t[4])
    /\ \A i \in {8, 12, 16} : IsStrText(t[i])

\* JSON.parse on the texts of this model: the value, or a SyntaxError.
ParseOk(t) == t = << "null" >> \/ IsObjectText(t)
Parse(t) ==
    IF t = << "null" >> THEN Null
    ELSE UserInfo(NumOf(t[4]), StrOf(t[8]), StrOf(t[12]), StrOf(t[16]))

TrueText == << "true" >>
FalseText == << "false" >>
EmptyText == << >>
\* a truncated object: JSON.parse throws on it
MalformedText == SubSeq(Stringify(Alice), 1, 5)

\* ---------------------------------------------------- Web Storage
\* A storage scope is a function from the keys it holds to their strings.
Keys == {"userInfo", "loginStatus"}

setItem(store, k, text) ==
    [x \in (DOMAIN store) \cup {k} |-> IF x = k THEN text ELSE store[x]]
removeItem(store, k) ==
    [x \in (DOMAIN store) \ {k} |-> store[x]]
hasItem(store, k) == k \in DOMAIN store

EmptyStore == [x \in {} |-> EmptyText]

\* ------------------------------------------------------ cookie jar
\* A cookie of the jar: its value, whether it outlives the browsing session
\* (persistent), and whether an assignment `name=...;path=/` made by a script
\* of the page addresses it (script).  The cookies the store writes are such
\* cookies; one the server set with HttpOnly or with a Domain attribute is
\* not.
Cookie(value, persistent, script) ==
    [value |-> value, persistent |-> persistent, script |-> script]

\* document.cookie = `name=value;path=/;expires=...`: an epoch date deletes
\* the cookie, an empty expires makes a session cookie, a future date a
\* persistent one.  The assignment leaves a cookie of that name alone when
\* it does not address it.
CookieNames == {"token", "refresh_token", "sessionid"}
Refreshes == {"", "r1"}

setCookie(jar, name, value, expires) ==
    IF name \in DOMAIN jar /\ ~jar[name].script
    THEN jar
    ELSE IF expires = "epoch"
    THEN [x \in (DOMAIN jar) \ {name} |-> jar[x]]
    ELSE [x \in (DOMAIN jar) \cup {name} |->
            IF x = name
            THEN Cookie(value, expires = "future", TRUE)
            ELSE jar[x]]

\* the expiry signin computes: 30 days ahead with rememberMe, else ''
ExpiresFor(rememberMe) == IF rememberMe THEN "future" ELSE ""

EmptyJar == [x \in {} |-> Cookie("", FALSE, TRUE)]

\* ------------------------------------------------------------ state
VARIABLES
    userInfo,        \* ref<UserInfo | null>
    loginStatus,     \* ref(false)
    isLoading,       \* ref(false)
    localStorage,    \* persistent storage scope
    sessionStorage,  \* session storage scope
    cookies,         \* document.cookie jar
    signinCalls,     \* the bag of suspended signin invocations
    checkCalls,      \* number of suspended checkLoginStatus invocations
    logoutCalls,     \* number of unsettled, un-awaited apiUserLogout promises
    phase,           \* "boot": page loaded, store not yet constructed; "ready"
    last             \* the step taken last: operation, arguments, outcome

vars == << userInfo, loginStatus, isLoading, localStorage, sessionStorage,
           cookies, signinCalls, checkCalls, logoutCalls, phase, last >>

memory == << userInfo, loginStatus >>
storage == << localStorage, sessionStorage >>
calls == << signinCalls, checkCalls, logoutCalls >>

\* The record of a step: the operation, what it returned (res), what its API
\* call answered (api), and its user / token / boolean argument (for a step
\* of signin the rememberMe of the call).  direct marks a `return true` of
\* signin that immediately follows the handling of that call's response.
\* A reload after a `return true` of signin keeps that record, with
\* "signin" in prevOp; the construction after a reload adds how the page was
\* loaded (boot) and which branch of initializeUserState ran (src).
Ev(op, res, api, user, token, flag) ==
    [op |-> op, res |-> res, api |-> api, user |-> user, token |-> token,
     flag |-> flag, boot |-> "", prevOp |-> "", src |-> "", direct |-> FALSE]

\* A suspended signin invocation: where it waits ("api": on apiUserSignin,
\* "pause": on the 100 ms timer), its rememberMe argument, and the user of
\* the response it has handled.
SigninCall(pc, rememberMe, user) ==
    [pc |-> pc, remember |-> rememberMe, user |-> user]
Paused(rememberMe, user) == SigninCall("pause", rememberMe, user)
One(call) == SetToBag({call})
Pending == BagCardinality(signinCalls) + checkCalls + logoutCalls
NoCallSuspended ==
    /\ signinCalls = EmptyBag
    /\ checkCalls = 0

\* ------------------------------------------------- updateUserState
\* Lines 35-45 for one scope: write both keys for a truthy user, remove both
\* otherwise.
\* (the write of the loginStatus key left out)
MirrorWithoutFlag(store, user) ==
    IF Truthy(user)
    THEN setItem(store, "userInfo", Stringify(user))
    ELSE removeItem(removeItem(store, "userInfo"), "loginStatus")

Mirror(store, user) ==
    IF Truthy(user)
    THEN setItem(setItem(store, "userInfo", Stringify(user)),
                 "loginStatus", TrueText)
    ELSE removeItem(removeItem(store, "userInfo"), "loginStatus")

updateUserState(user, status) ==
    /\ userInfo' = user
    /\ loginStatus' = status
    /\ localStorage' = Mirror(localStorage, user)
    /\ sessionStorage' = Mirror(sessionStorage, user)

\* updateUserState called from outside the store (it is exported).
UpdateUserState(user, status) ==
    /\ phase = "ready"
    /\ updateUserState(user, status)
    /\ last' = Ev("updateUserState", "", "", user, "", status)
    /\ UNCHANGED << isLoading, cookies, calls, phase >>

\* ---------------------------------------------- initializeUserState
\* `item && flag === 'true'`: the key holds a non-empty string and the flag
\* key holds exactly 'true'.
Restorable(store) ==
    /\ hasItem(store, "userInfo")
    /\ store["userInfo"] # EmptyText
    /\ hasItem(store, "loginStatus")
    /\ store["loginStatus"] = TrueText

\* (the persistent scope consulted first)
restoreSourceLocalFirst(session, local) ==
    IF Restorable(local) /\ ParseOk(local["userInfo"]) THEN "local"
    ELSE IF Restorable(session) /\ ParseOk(session["userInfo"])
    THEN "session"
    ELSE IF Restorable(local) THEN "discarded"
    ELSE "none"

\* The branch initializeUserState takes: "session" (lines 56-60), "local"
\* (lines 72-74), "discarded" (the catch block, lines 76-78), "none" (line 81).
restoreSource(session, local) ==
    IF Restorable(session) /\ ParseOk(session["userInfo"]) THEN "session"
    ELSE IF Restorable(local)
    THEN IF ParseOk(local["userInfo"]) THEN "local" ELSE "discarded"
    ELSE "none"

\* (the catch block without its two removeItem calls)
discardStoredKeepsKeys ==
    UNCHANGED << userInfo, loginStatus, localStorage, sessionStorage >>

\* (a catch block that also drops the session scope's flag)
discardStoredAndSessionFlag ==
    /\ localStorage' =
          removeItem(removeItem(localStorage, "userInfo"), "loginStatus")
    /\ sessionStorage' = removeItem(sessionStorage, "loginStatus")
    /\ UNCHANGED << userInfo, loginStatus >>

\* lines 75-79: the persistent copy does not parse
discardStored ==
    /\ localStorage' =
          removeItem(removeItem(localStorage, "userInfo"), "loginStatus")
    /\ UNCHANGED << userInfo, loginStatus, sessionStorage >>

initializeUserState ==
    LET src == restoreSource(sessionStorage, localStorage) IN
    IF src = "session"
    THEN updateUserState(Parse(sessionStorage["userInfo"]), TRUE)
    ELSE IF src = "local"
    THEN updateUserState(Parse(localStorage["userInfo"]), TRUE)
    ELSE IF src = "discarded"
    THEN discardStored
    ELSE updateUserState(Null, FALSE)

\* useUserStore's setup function runs: fresh refs, then initializeUserState.
Construct ==
    /\ phase = "boot"
    /\ initializeUserState
    /\ phase' = "ready"
    /\ last' = [last EXCEPT !.op = "construct",
                            !.boot = IF last.op \in {"reload", "restart"}
                                     THEN last.op ELSE "fresh",
                            !.src = restoreSource(sessionStorage,
                                                  localStorage)]
    /\ UNCHANGED << isLoading, cookies, calls >>

\* ------------------------------------------------------------ signin
\* The answers of apiUserSignin: a rejection, success:false, or success:true
\* with the user, the token issued to that user and an optional refresh.
TokenOf(u) == IF u = Alice THEN "t1" ELSE "t2"
SigninResponses ==
    { [outcome |-> "throw", success |-> FALSE, token |-> "", refresh |-> "",
       user |-> Null],
      [outcome |-> "response", success |-> FALSE, token |-> "",
       refresh |-> "", user |-> Null] }
    \cup
    { [outcome |-> "response", success |-> TRUE, token |-> TokenOf(u),
       refresh |-> r, user |-> u] : r \in Refreshes, u \in Users }

\* `isLoading.value = true`, then the call suspends on apiUserSignin.
SigninStart(rememberMe) ==
    /\ phase = "ready"
    /\ Pending < MaxPending
    /\ isLoading' = TRUE
    /\ signinCalls' = signinCalls (+) One(SigninCall("api", rememberMe, Null))
    /\ last' = Ev("signin", "start", "", Null, "", rememberMe)
    /\ UNCHANGED << memory, storage, cookies, checkCalls, logoutCalls,
                    phase >>

\* (the token cookie not written)
signinCookiesWithoutToken(jar, resp, rememberMe) ==
    IF resp.refresh # ""
    THEN setCookie(jar, "refresh_token", resp.refresh, ExpiresFor(rememberMe))
    ELSE jar

\* lines 106-109: the token cookie, and the refresh_token cookie if given
signinCookies(jar, resp, rememberMe) ==
    LET withToken ==
            setCookie(jar, "token", resp.token, ExpiresFor(rememberMe))
    IN  IF resp.refresh # ""
        THEN setCookie(withToken, "refresh_token", resp.refresh,
                       ExpiresFor(rememberMe))
        ELSE withToken

\* (the refs set, nothing persisted)
signinStoreRefsOnly(user) ==
    /\ userInfo' = user
    /\ loginStatus' = TRUE
    /\ UNCHANGED << localStorage, sessionStorage >>

\* lines 112-116: updateUserState, then the session scope written again
signinStore(user) ==
    /\ userInfo' = user
    /\ loginStatus' = TRUE
    /\ localStorage' = Mirror(localStorage, user)
    /\ sessionStorage' =
          setItem(setItem(Mirror(sessionStorage, user),
                          "userInfo", Stringify(user)),
                  "loginStatus", TrueText)

\* (a refused sign-in that signs the current user out)
signinRefusedClears ==
    /\ updateUserState(Null, FALSE)
    /\ UNCHANGED cookies

\* lines 124-127: `return false` and the rethrow write nothing
signinRefused ==
    UNCHANGED << memory, storage, cookies >>

\* apiUserSignin settles and the call resumes.  success: cookies and state
\* are written and the call suspends again on the 100 ms timer.  Otherwise
\* it returns false or rethrows, and `finally` clears isLoading.
SigninResponse(c, resp) ==
    /\ BagIn(c, signinCalls)
    /\ c.pc = "api"
    /\ LET rememberMe == c.remember IN
       IF resp.outcome = "response" /\ resp.success
       THEN /\ cookies' = signinCookies(cookies, resp, rememberMe)
            /\ signinStore(resp.user)
            /\ signinCalls' =
                  (signinCalls (-) One(c))
                      (+) One(Paused(rememberMe, resp.user))
            /\ last' = Ev("signin", "pause", "ok", resp.user, resp.token,
                          rememberMe)
            /\ UNCHANGED isLoading
       ELSE /\ isLoading' = FALSE
            /\ signinCalls' = signinCalls (-) One(c)
            /\ last' = IF resp.outcome = "throw"
                       THEN Ev("signin", "throw", "throw", Null, "",
                               rememberMe)
                       ELSE Ev("signin", "false", "fail", Null, "",
                               rememberMe)
            /\ signinRefused
    /\ UNCHANGED << checkCalls, logoutCalls, phase >>

\* (a return that skips the finally block)
SigninReturnKeepsLoading(c) ==
    /\ BagIn(c, signinCalls)
    /\ c.pc = "pause"
    /\ signinCalls' = signinCalls (-) One(c)
    /\ last' = Ev("signin", "true", "ok", c.user, TokenOf(c.user), c.remember)
    /\ UNCHANGED << memory, isLoading, storage, cookies, checkCalls,
                    logoutCalls, phase >>

\* The call whose response was handled in the step before is the one that
\* returns now: the pause record is of this call's user and rememberMe, and
\* no second call with the same two is waiting on its timer (of two such
\* calls the one answered earlier returns first, the timers being equal).
returnsDirectly(c) ==
    /\ last.op = "signin"
    /\ last.res = "pause"
    /\ last.user = c.user
    /\ last.flag = c.remember
    /\ CopiesIn(c, signinCalls) = 1

\* the timer fires: `return true`, and `finally` clears isLoading
SigninReturn(c) ==
    /\ BagIn(c, signinCalls)
    /\ c.pc = "pause"
    /\ isLoading' = FALSE
    /\ signinCalls' = signinCalls (-) One(c)
    /\ last' = [Ev("signin", "true", "ok", c.user, TokenOf(c.user),
                   c.remember)
                EXCEPT !.direct = returnsDirectly(c)]
    /\ UNCHANGED << memory, storage, cookies, checkCalls, logoutCalls,
                    phase >>

\* -------------------------------------------------- checkLoginStatus
CheckResponses ==
    { [outcome |-> "throw", isAuthenticated |-> FALSE, user |-> Null] }
    \cup
    { [outcome |-> "response", isAuthenticated |-> a, user |-> u] :
        a \in BOOLEAN, u \in UsersOrNull }

\* the call suspends on apiUserCheckSignin
CheckStart ==
    /\ phase = "ready"
    /\ Pending < MaxPending
    /\ checkCalls' = checkCalls + 1
    /\ last' = Ev("check", "start", "", Null, "", FALSE)
    /\ UNCHANGED << memory, isLoading, storage, cookies, signinCalls,
                    logoutCalls, phase >>

\* (a catch block that leaves the refs alone)
checkStoreKeepsOnThrow(resp) ==
    IF resp.outcome = "response"
    THEN /\ loginStatus' = resp.isAuthenticated
         /\ userInfo' = IF resp.isAuthenticated /\ Truthy(resp.user)
                        THEN resp.user ELSE Null
    ELSE UNCHANGED << loginStatus, userInfo >>

\* (the user of the response kept whatever isAuthenticated says)
checkStoreIgnoresFlag(resp) ==
    IF resp.outcome = "response"
    THEN /\ loginStatus' = resp.isAuthenticated
         /\ userInfo' = resp.user
    ELSE /\ loginStatus' = FALSE
         /\ userInfo' = Null

\* lines 137-146 on a response, lines 148-151 on a rejection
checkStore(resp) ==
    IF resp.outcome = "response"
    THEN /\ loginStatus' = resp.isAuthenticated
         /\ userInfo' = IF resp.isAuthenticated /\ Truthy(resp.user)
                        THEN resp.user ELSE Null
    ELSE /\ loginStatus' = FALSE
         /\ userInfo' = Null

CheckResponse(resp) ==
    /\ checkCalls > 0
    /\ checkStore(resp)
    /\ checkCalls' = checkCalls - 1
    /\ last' = IF resp.outcome = "response"
               THEN Ev("check",
                       IF resp.isAuthenticated THEN "true" ELSE "false",
                       "ok", resp.user, "", resp.isAuthenticated)
               ELSE Ev("check", "false", "throw", Null, "", FALSE)
    /\ UNCHANGED << isLoading, storage, cookies, signinCalls, logoutCalls,
                    phase >>

\* ---------------------------------------------------- setLoginStatus
\* (the user dropped when the status is false)
setLoginStatusDropsUser(status, user) ==
    /\ loginStatus' = status
    /\ userInfo' = IF status THEN user ELSE Null

setLoginStatus(status, user) ==
    /\ loginStatus' = status
    /\ userInfo' = user

SetLoginStatus(status, user) ==
    /\ phase = "ready"
    /\ setLoginStatus(status, user)
    /\ last' = Ev("setLoginStatus", "", "", user, "", status)
    /\ UNCHANGED << isLoading, storage, cookies, calls, phase >>

\* ------------------------------------------------------------ logout
\* lines 169-171
expireCookies(jar) ==
    setCookie(setCookie(setCookie(jar, "token", "", "epoch"),
                        "refresh_token", "", "epoch"),
              "sessionid", "", "epoch")

\* what can go wrong inside logout's try block: nothing ("ok"), the call
\* of apiUserLogout throws ("apiThrows"), successMsg or router.push throws
\* ("uiThrows"); the catch block returns true
LogoutCourses == {"ok", "apiThrows", "uiThrows"}
logoutResult(course) == "true"

\* logout has no await: it runs to its return in one step.  The promise of
\* apiUserLogout, once obtained, is left to settle on its own.
Logout(course) ==
    /\ phase = "ready"
    /\ course = "apiThrows" \/ Pending < MaxPending
    /\ updateUserState(Null, FALSE)
    /\ cookies' = expireCookies(cookies)
    /\ logoutCalls' = IF course = "apiThrows" THEN logoutCalls
                      ELSE logoutCalls + 1
    /\ last' = Ev("logout", logoutResult(course),
                  IF course = "apiThrows" THEN "throw" ELSE "", Null, "",
                  course = "uiThrows")
    /\ UNCHANGED << isLoading, signinCalls, checkCalls, phase >>

\* the un-awaited apiUserLogout promise settles; a rejection is only logged
LogoutApiSettles(ok) ==
    /\ logoutCalls > 0
    /\ logoutCalls' = logoutCalls - 1
    /\ last' = Ev("logoutApi", "", IF ok THEN "ok" ELSE "throw", Null, "",
                  ok)
    /\ UNCHANGED << memory, isLoading, storage, cookies, signinCalls,
                    checkCalls, phase >>

\* ------------------------------------------------------- environment
\* The jars a browser may hold after it is closed and opened again.  The
\* cookies written with a future expires stay; what becomes of those written
\* with an empty expires is the browser's choice: it discards them, or (when
\* it restores the previous session) keeps them all.
cookiesAfterRestart(jar) ==
    {[x \in {n \in DOMAIN jar : jar[n].persistent} |-> jar[x]], jar}

\* The jar and the session scope the page may find after the browser is
\* closed and opened again.  A page opened anew has an empty session scope;
\* a tab the browser restores gets its session scope back, together with
\* all its cookies.
afterRestart(jar, store) ==
    {<< j, EmptyStore >> : j \in cookiesAfterRestart(jar)}
        \cup {<< jar, store >>}

\* The page is reloaded ("reload") or the browser is closed and opened again
\* ("restart"): the refs and the suspended calls are gone; after a restart
\* the jar and the session scope are one of the pairs above.
Reload(kind) ==
    /\ phase = "ready"
    /\ phase' = "boot"
    /\ userInfo' = Null
    /\ loginStatus' = FALSE
    /\ isLoading' = FALSE
    /\ signinCalls' = EmptyBag
    /\ checkCalls' = 0
    /\ logoutCalls' = 0
    /\ \E after \in IF kind = "restart"
                     THEN afterRestart(cookies, sessionStorage)
                     ELSE {<< cookies, sessionStorage >>} :
          /\ cookies' = after[1]
          /\ sessionStorage' = after[2]
    /\ last' = IF last.op = "signin" /\ last.res = "true"
               THEN [last EXCEPT !.op = kind, !.prevOp = "signin",
                                 !.boot = "", !.src = ""]
               ELSE Ev(kind, "", "", Null, "", FALSE)
    /\ UNCHANGED localStorage

\* ------------------------------------------------------ specification
NoItem == << "<no item>" >>
UserInfoItems ==
    {NoItem, Stringify(Alice), Stringify(Bob), Stringify(Null), MalformedText,
     EmptyText}
LoginStatusItems == {NoItem, TrueText, FalseText}

StoreWith(ui, ls) ==
    [k \in {x \in Keys : (x = "userInfo" /\ ui # NoItem)
                         \/ (x = "loginStatus" /\ ls # NoItem)} |->
        IF k = "userInfo" THEN ui ELSE ls]
Stores == {StoreWith(ui, ls) : ui \in UserInfoItems, ls \in LoginStatusItems}

\* the server's session cookie may be there from an earlier visit, set so
\* that a script can expire it or (HttpOnly, Domain) so that it cannot
InitialJars ==
    {EmptyJar} \cup
    {[x \in {"sessionid"} |-> Cookie("s1", TRUE, script)] :
        script \in BOOLEAN}

\* A page load: the refs as declared (lines 19-21), the store not yet set up,
\* the browser holding whatever earlier pages left behind.
Init ==
    /\ userInfo = Null
    /\ loginStatus = FALSE
    /\ isLoading = FALSE
    /\ localStorage \in Stores
    /\ sessionStorage \in Stores
    /\ cookies \in InitialJars
    /\ signinCalls = EmptyBag
    /\ checkCalls = 0
    /\ logoutCalls = 0
    /\ phase = "boot"
    /\ last = Ev("load", "", "", Null, "", FALSE)

Next ==
    \/ Construct
    \/ \E u \in UsersOrNull, s \in BOOLEAN : UpdateUserState(u, s)
    \/ \E r \in BOOLEAN : SigninStart(r)
    \/ \E c \in BagToSet(signinCalls), resp \in SigninResponses :
          SigninResponse(c, resp)
    \/ \E c \in BagToSet(signinCalls) : SigninReturn(c)
    \/ CheckStart
    \/ \E resp \in CheckResponses : CheckResponse(resp)
    \/ \E s \in BOOLEAN, u \in UsersOrNull : SetLoginStatus(s, u)
    \/ \E course \in LogoutCourses : Logout(course)
    \/ \E ok \in BOOLEAN : LogoutApiSettles(ok)
    \/ \E kind \in {"reload", "restart"} : Reload(kind)

Spec == Init /\ [][Next]_vars

\* ============================================================ claims
BothScopes == {localStorage, sessionStorage}
HoldsNeitherKey(store) == ~hasItem(store, "userInfo")
                          /\ ~hasItem(store, "loginStatus")
HoldsMirrorOf(store, u) ==
    /\ hasItem(store, "userInfo")
    /\ store["userInfo"] = Stringify(u)
    /\ hasItem(store, "loginStatus")
    /\ store["loginStatus"] = TrueText
HasCookie(name, value) ==
    name \in DOMAIN cookies /\ cookies[name].value = value

\* C1: after updateUserState(u, true) with a present user u both scopes hold
\* userInfo = the serialization of u (which parses back to u) and
\* loginStatus = "true"; after updateUserState(null, false) neither scope
\* holds userInfo or loginStatus.
SetSessionStatePersists ==
    last.op = "updateUserState" =>
        /\ (Truthy(last.user) /\ last.flag) =>
              \A st \in BothScopes :
                  /\ HoldsMirrorOf(st, last.user)
                  /\ ParseOk(st["userInfo"])
                  /\ Parse(st["userInfo"]) = last.user
        /\ (~Truthy(last.user) /\ ~last.flag) =>
              \A st \in BothScopes : HoldsNeitherKey(st)

SetSessionStateActed ==
    /\ last.op = "updateUserState"
    /\ last.user = Bob
    /\ last.flag
    /\ HoldsMirrorOf(localStorage, Bob)
    /\ HoldsMirrorOf(sessionStorage, Bob)

\* C2: logout returns true whatever goes wrong inside it, and when it
\* returns the user is null, loginStatus is false and none of the cookies
\* token, refresh_token, sessionid is left.
LogoutAlwaysSucceeds ==
    last.op = "logout" =>
        /\ last.res = "true"
        /\ userInfo = Null
        /\ loginStatus = FALSE
        /\ \A n \in CookieNames : n \notin DOMAIN cookies

\* C3 as stated: when signin returns true for the response (t, u), then at
\* that moment loginStatus is true, userInfo is u and the token cookie is t.
SigninReturnsSignedIn ==
    (last.op = "signin" /\ last.res = "true") =>
        /\ loginStatus = TRUE
        /\ userInfo = last.user
        /\ HasCookie("token", last.token)

\* C3 as amended: a success response (t, u) makes signin return true; when
\* signin has handled the response, loginStatus is true, userInfo is u and
\* the token cookie is t, and that still holds when signin returns if no
\* other step of the store came between the two.
SigninSignsIn ==
    [][ /\ (last'.op = "signin" /\ last'.res = "pause") =>
              /\ last'.api = "ok"
              /\ loginStatus' = TRUE
              /\ userInfo' = last'.user
              /\ "token" \in DOMAIN cookies'
              /\ cookies'["token"].value = last'.token
              /\ BagIn(Paused(last'.flag, last'.user), signinCalls')
        /\ (last'.op = "signin" /\ last'.api = "ok") =>
              last'.res \in {"pause", "true"}
        /\ (/\ last.op = "signin" /\ last.res = "pause"
            /\ last'.op = "signin" /\ last'.res = "true"
            /\ last'.user = last.user) =>
              /\ loginStatus' = TRUE
              /\ userInfo' = last'.user
              /\ "token" \in DOMAIN cookies'
              /\ cookies'["token"].value = last'.token
      ]_vars

SigninReturnedSignedIn ==
    /\ last.op = "signin"
    /\ last.res = "true"
    /\ loginStatus = TRUE
    /\ userInfo = Alice
    /\ last.user = Alice
    /\ HasCookie("token", "t1")

\* C4: a signin that is answered success:false returns false, and none of its
\* steps changes userInfo, loginStatus, either storage scope or the cookies.
SigninRefusedChangesNothing ==
    [][ /\ (last'.op = "signin" /\ last'.api = "fail") => last'.res = "false"
        /\ (last'.op = "signin" /\ last'.res \in {"start", "false"}) =>
              UNCHANGED << userInfo, loginStatus, localStorage,
                           sessionStorage, cookies >>
      ]_vars

SigninRefusedWhileSignedIn ==
    /\ last.op = "signin"
    /\ last.res = "false"
    /\ loginStatus = TRUE
    /\ userInfo = Alice
    /\ HoldsMirrorOf(localStorage, Alice)
    /\ "token" \in DOMAIN cookies

\* C5: when apiUserCheckSignin rejects, checkLoginStatus returns false with
\* loginStatus false and userInfo null.
CheckFailureSignsOut ==
    (last.op = "check" /\ last.api = "throw") =>
        /\ last.res = "false"
        /\ loginStatus = FALSE
        /\ userInfo = Null

\* the rejection arrived while the storage still mirrors a signed-in user
CheckFailedWhileSignedIn ==
    /\ last.op = "check"
    /\ last.api = "throw"
    /\ userInfo = Null
    /\ HoldsMirrorOf(localStorage, Alice)

\* C6: if the session scope holds the serialization of a user u and the flag
\* "true", construction ends with loginStatus true and userInfo u, whatever
\* the persistent scope holds.
RestorePrefersSession ==
    [][ last'.op = "construct" =>
          \A u \in Users :
              HoldsMirrorOf(sessionStorage, u) =>
                  (loginStatus' = TRUE /\ userInfo' = u)
      ]_vars

RestoredFromSession ==
    /\ last.op = "construct"
    /\ last.src = "session"
    /\ loginStatus = TRUE
    /\ userInfo = Bob

\* C7: with an empty session scope, a persistent scope holding the
\* serialization of u and the flag "true" restores u; a persistent scope
\* holding the flag "true" and a user text that does not parse loses both
\* keys, and construction completes with loginStatus false and userInfo null.
RestoreFallsBackToLocal ==
    [][ (last'.op = "construct" /\ DOMAIN sessionStorage = {}) =>
          /\ \A u \in Users :
                HoldsMirrorOf(localStorage, u) =>
                    (loginStatus' = TRUE /\ userInfo' = u)
          /\ (/\ hasItem(localStorage, "loginStatus")
              /\ localStorage["loginStatus"] = TrueText
              /\ hasItem(localStorage, "userInfo")
              /\ ~ParseOk(localStorage["userInfo"])) =>
                    /\ HoldsNeitherKey(localStorage')
                    /\ phase' = "ready"
                    /\ loginStatus' = FALSE
                    /\ userInfo' = Null
      ]_vars

MalformedLocalDiscarded ==
    /\ last.op = "construct"
    /\ last.src = "discarded"
    /\ DOMAIN sessionStorage = {}
    /\ HoldsNeitherKey(localStorage)
    /\ loginStatus = FALSE

\* C8: loginStatus = true implies that userInfo is present.
AuthenticatedHasUser ==
    loginStatus = TRUE => userInfo # Null

\* C9: once the store is constructed and no call is suspended, both scopes
\* hold the serialized userInfo and the flag "true" exactly when a user is
\* present and loginStatus is true, and hold neither key otherwise.
MirrorIsCopy ==
    (phase = "ready" /\ NoCallSuspended) =>
        \A st \in BothScopes :
            IF userInfo # Null /\ loginStatus = TRUE
            THEN HoldsMirrorOf(st, userInfo)
            ELSE HoldsNeitherKey(st)

\* C10: after a browser restart that directly followed a signin returning
\* true without rememberMe and that left the session scope empty and no
\* session cookie in the jar, the construction of the store ends with
\* loginStatus false and userInfo null.
RememberMeHonoured ==
    [][ (/\ last.op = "restart"
         /\ last.prevOp = "signin"
         /\ last.res = "true"
         /\ last.flag = FALSE
         /\ sessionStorage = EmptyStore
         /\ \A n \in DOMAIN cookies : cookies[n].persistent
         /\ last'.op = "construct") =>
            (loginStatus' = FALSE /\ userInfo' = Null)
      ]_vars

\* A step of the store itself, not of the browser around it.
StoreStep == last'.op \notin {"reload", "restart"}
\* The step changes the two scopes the way one updateUserState call does
\* for the user the step leaves in userInfo.
WritesAsUpdateUserState ==
    /\ localStorage' = Mirror(localStorage, userInfo')
    /\ sessionStorage' = Mirror(sessionStorage, userInfo')
\* The catch block of initializeUserState ran: the two persistent keys are
\* removed directly, the session scope is not touched.
RemovesLocalDirectly ==
    /\ last'.op = "construct"
    /\ last'.src = "discarded"
    /\ HoldsNeitherKey(localStorage')
    /\ sessionStorage' = sessionStorage

\* C11 as stated: every change a step of the store makes to the two scopes
\* is the change of an updateUserState call.
SoleMutator ==
    [][ StoreStep => (UNCHANGED storage \/ WritesAsUpdateUserState) ]_vars

\* C11 as amended: every change a step of the store makes to the two scopes
\* is the change of an updateUserState call (signin's own two setItem calls
\* rewrite what updateUserState has just written), except in the catch block
\* of initializeUserState, which removes the two persistent keys itself and
\* leaves the session scope as it is.
SoleMutatorButDiscard ==
    [][ StoreStep =>
          \/ UNCHANGED storage
          \/ WritesAsUpdateUserState
          \/ RemovesLocalDirectly
      ]_vars

DiscardLeftSessionKeys ==
    /\ last.op = "construct"
    /\ last.src = "discarded"
    /\ HoldsNeitherKey(localStorage)
    /\ hasItem(sessionStorage, "userInfo")
    /\ hasItem(sessionStorage, "loginStatus")

\* C12: signin sets isLoading when it starts, and isLoading is false at the
\* moment a signin invocation completes, whether it returns true, returns
\* false or rethrows.
SigninClearsLoading ==
    last.op = "signin" =>
        /\ last.res = "start" => isLoading = TRUE
        /\ last.res \in {"true", "false", "throw"} => isLoading = FALSE

SigninCompletedNotLoading ==
    /\ last.op = "signin"
    /\ last.res = "true"
    /\ isLoading = FALSE
    /\ loginStatus = TRUE

\* C13: when apiUserSignin rejects, signin rethrows (it returns neither true
\* nor false), isLoading is false at that moment, and no step of that signin
\* changes userInfo, loginStatus, either storage scope or the cookies.
SigninErrorPropagates ==
    [][ /\ (last'.op = "signin" /\ last'.api = "throw") =>
              /\ last'.res = "throw"
              /\ isLoading' = FALSE
        /\ (last'.op = "signin" /\ last'.res \in {"start", "throw"}) =>
              UNCHANGED << userInfo, loginStatus, localStorage,
                           sessionStorage, cookies >>
      ]_vars

SigninThrewWhileSignedIn ==
    /\ last.op = "signin"
    /\ last.res = "throw"
    /\ isLoading = FALSE
    /\ loginStatus = TRUE
    /\ userInfo = Bob
    /\ HoldsMirrorOf(sessionStorage, Bob)

\* C14: on a response, checkLoginStatus sets loginStatus to isAuthenticated
\* and userInfo to the response's user if authenticated and given, else to
\* null, returns isAuthenticated, and no step of it changes either storage
\* scope or the cookies.
CheckAdoptsResponse ==
    [][ /\ (last'.op = "check" /\ last'.api = "ok") =>
              /\ loginStatus' = last'.flag
              /\ userInfo' = IF last'.flag /\ last'.user # Null
                             THEN last'.user ELSE Null
              /\ last'.res = IF last'.flag THEN "true" ELSE "false"
        /\ last'.op = "check" => UNCHANGED << storage, cookies >>
      ]_vars

\* the response signs Alice in over storage that mirrors nobody
CheckSignedInUnmirrored ==
    /\ last.op = "check"
    /\ last.api = "ok"
    /\ last.res = "true"
    /\ userInfo = Alice
    /\ HoldsNeitherKey(localStorage)
    /\ HoldsNeitherKey(sessionStorage)

\* C15: setLoginStatus(status, user) sets loginStatus to status and userInfo
\* to user and leaves both storage scopes, the cookies and isLoading alone.
SetLoginStatusOnlySetsRefs ==
    [][ last'.op = "setLoginStatus" =>
          /\ loginStatus' = last'.flag
          /\ userInfo' = last'.user
          /\ UNCHANGED << storage, cookies, isLoading >>
      ]_vars

SetLoginStatusOverMirror ==
    /\ last.op = "setLoginStatus"
    /\ last.flag = FALSE
    /\ loginStatus = FALSE
    /\ userInfo = Alice
    /\ HoldsMirrorOf(localStorage, Bob)
    /\ "token" \in DOMAIN cookies

SignedOutEverywhere(user, status, local, session, jar) ==
    /\ user = Null
    /\ status = FALSE
    /\ HoldsNeitherKey(local)
    /\ HoldsNeitherKey(session)
    /\ \A n \in CookieNames : n \notin DOMAIN jar

\* C16: logout has cleared userInfo, loginStatus, both scopes and the three
\* cookies when it returns, also when the call of apiUserLogout itself
\* throws; the promise of apiUserLogout is still unsettled at that moment;
\* and the step in which it settles, fulfilled or rejected, changes none of
\* userInfo, loginStatus, the storage scopes and the cookies.
LogoutFireAndForget ==
    [][ /\ last'.op = "logout" =>
              /\ last'.res = "true"
              /\ SignedOutEverywhere(userInfo', loginStatus', localStorage',
                                     sessionStorage', cookies')
              /\ last'.api # "throw" => logoutCalls' = logoutCalls + 1
        /\ last'.op = "logoutApi" =>
              UNCHANGED << userInfo, loginStatus, localStorage,
                           sessionStorage, cookies >>
      ]_vars

\* C17 as stated: a construction after a page reload that directly followed
\* a signin returning true for u ends with loginStatus true and userInfo u.
SigninSurvivesReload ==
    (/\ last.op = "construct"
     /\ last.boot = "reload"
     /\ last.prevOp = "signin"
     /\ last.res = "true") =>
        (loginStatus = TRUE /\ userInfo = last.user)

\* C17 as amended: the same, provided no other step of the store came
\* between that signin's handling of the response and its return.
DirectSigninSurvivesReload ==
    (/\ last.op = "construct"
     /\ last.boot = "reload"
     /\ last.prevOp = "signin"
     /\ last.res = "true"
     /\ last.direct) =>
        (loginStatus = TRUE /\ userInfo = last.user)

SigninRestoredAfterReload ==
    /\ last.op = "construct"
    /\ last.boot = "reload"
    /\ last.prevOp = "signin"
    /\ last.res = "true"
    /\ last.direct
    /\ last.user = Bob
    /\ userInfo = Bob
    /\ loginStatus = TRUE

\* A suspended call resumes or the apiUserLogout promise settles: no
\* operation is started.
ContinuationStep ==
    \/ last'.op = "signin" /\ last'.res # "start"
    \/ last'.op = "check" /\ last'.res # "start"
    \/ last'.op = "logoutApi"

\* C18: when logout has returned and the next step of the store is the
\* continuation of a call that was already in flight, userInfo stays null,
\* loginStatus stays false, both scopes stay without userInfo/loginStatus
\* and no token cookie is written.
LogoutNotUndone ==
    [][ (last.op = "logout" /\ ContinuationStep) =>
          /\ userInfo' = Null
          /\ loginStatus' = FALSE
          /\ HoldsNeitherKey(localStorage')
          /\ HoldsNeitherKey(sessionStorage')
          /\ "token" \notin DOMAIN cookies'
      ]_vars

\* C19: isLoading is true whenever a signin invocation is suspended.
LoadingWhileSigninPending ==
    signinCalls # EmptyBag => isLoading = TRUE

\* C20: when construction has finished, a store that is authenticated with a
\* user u finds the mirror of u in both scopes, and a store that is not
\* authenticated finds neither key in either scope.
RestoreLeavesMirrorConsistent ==
    last.op = "construct" =>
        /\ (loginStatus = TRUE /\ userInfo # Null) =>
              \A st \in BothScopes : HoldsMirrorOf(st, userInfo)
        /\ loginStatus = FALSE =>
              \A st \in BothScopes : HoldsNeitherKey(st)

====
